---- MODULE Spec2Model ----
(***************************************************************************)
(* Model of client/runner.py: Runner.run, its nested send_batch,           *)
(* get_async_result and future_result, and ThreadSafeCounter.              *)
(*                                                                         *)
(* Threads: the orchestrator (the caller of Runner.run), the pool's worker *)
(* threads (ThreadPoolExecutor(max_workers=workers)) and, in async mode,   *)
(* the collector thread running get_async_result.                          *)
(***************************************************************************)
EXTENDS Integers, Sequences, FiniteSets, TLC

\* ---------------------------------------------------------------- bounds
MaxSamples == 2        \* dataset lengths 0..MaxSamples
MaxBatchSize == 2      \* configured batch_size ranges over -1..MaxBatchSize
MaxWorkers == 2        \* configured workers ranges over 0..MaxWorkers
MaxIncrements == 2     \* increment calls per thread in the counter's own runs
MaxBacklogFailures == 1 \* resolutions failing with InferenceServerException in the long runs

\* runner.py:29  queue.Queue(maxsize=200)
QueueCapacity == 200

\* Runner.run is called once or twice on the same Runner.
RunNumbers == {1, 2}

BatchSizes == {-1, 0} \cup (1..MaxBatchSize)
WorkerCounts == 0..MaxWorkers

\* Outcomes of client.infer_batch / client.infer_batch_async: a non-null
\* result (or handle), None, a raised exception derived from Exception
\* ("raise"), or a raised BaseException that is not an Exception, such as
\* SystemExit or KeyboardInterrupt ("abort").
ClientOutcomes == {"ok", "null", "raise", "abort"}
\* Outcomes of req.get_result() in the collector: a result, an
\* InferenceServerException, or any other exception.
ResolveOutcomes == {"ok", "ise", "other"}

VARIABLES
    batch_size, async_req, workers,   \* RunnerConfig
    dataset,            \* the samples, in dataset order
    opc,                \* orchestrator position in Runner.run
    pos,                \* number of samples the for loop has consumed
    batch,              \* the batch being assembled
    futures,            \* the futures list: one record per submitted task
    work_queue,         \* executor work queue: tasks submitted, not yet taken
    worker,             \* per pool thread: the task it runs and where it is
    async_reqs,         \* the pending-handle queue
    completed,          \* the completed Event
    cpc, chand,         \* collector position, handle it holds
    resolved,           \* the handles the collector resolved, and how many of the
                        \* resolutions returned (ok) or raised InferenceServerException
    success_counter, fail_counter,
    execution_times,    \* self.execution_times (each entry is the number of the
                        \* call of run that recorded it)
    returned_times,     \* the value Runner.run returned
    item_cnt, batch_group_cnt, total, progress_log,
    processed,          \* futures that future_result has handled
    fail_warning,       \* count reported by the end-of-run warning, 0 if none
    run_no,             \* which call of Runner.run on this Runner this is
    pass_start,         \* number of samples consumed before this call's loop
    stale,              \* tasks of the previous call still in its pool: those
                        \* that have not made their client call, and those that
                        \* made it and have not recorded their timing
    lock_holder,        \* ThreadSafeCounter._lock: the thread holding it, or "none"
    incr                \* per thread inside increment(): position, value read,
                        \* and number of calls it has completed

cfgvars == <<batch_size, async_req, workers, dataset>>
orchvars == <<opc, pos, batch, completed, returned_times, processed, fail_warning>>
runvars == <<run_no, pass_start, stale>>
lockvars == <<lock_holder, incr>>
poolvars == <<futures, work_queue, worker>>
collvars == <<async_reqs, cpc, chand, resolved>>
cntvars == <<success_counter, fail_counter>>
progvars == <<item_cnt, batch_group_cnt, total, progress_log>>
vars == <<cfgvars, orchvars, poolvars, collvars, cntvars, progvars, execution_times,
          runvars, lockvars>>

\* the threads that increment a counter: future_result runs in the
\* orchestrator, get_async_result in the collector thread
CounterThreads == {"orchestrator", "collector"}
NotIncrementing == [t \in CounterThreads |-> [pc |-> "idle", tmp |-> 0, calls |-> 0]]

PoolThreadIds == 1..MaxWorkers
Idle == [task |-> 0, pc |-> "idle"]
NoneResolved == [handles |-> {}, ok |-> 0, ise |-> 0]
NoStale == [call |-> 0, rec |-> 0]

\* ------------------------------------------------------------ pure helpers

RECURSIVE Flatten(_)
Flatten(ss) == IF ss = <<>> THEN <<>> ELSE Head(ss) \o Flatten(Tail(ss))

\* ThreadSafeCounter.increment(val): the read-modify-write under self._lock.
increment(counter, val) == counter + val

\* runner.py:107  `if len(batch) == self.config.batch_size`
BatchFull(b, bs) == Len(b) = bs

\* runner.py:112  `if len(batch) > 0`
TailPendingMut(b) == Len(b) > 1
TailPendingAlways(b) == TRUE
TailPending(b) == Len(b) > 0

\* runner.py:45 / 53  `if req is not None` / `if res is not None`
SendBatchSuccessMut(out) == out # "raise"
SendBatchSuccess(out) == out = "ok"

\* runner.py:31: the executor runs at most max_workers threads.
PoolThreadsMut(n) == 1..(n + 1)
PoolThreads(n) == 1..n

\* runner.py:108: executor.submit(send_batch, batch) returns at once whatever
\* the number of tasks queued or running (the work queue is unbounded).
SubmitReady(queued, running, n) == TRUE

\* runner.py:29, 46: async_reqs.put(req) blocks while the queue is full.
QueueHasRoomMut(q) == TRUE
QueueHasRoom(q) == Len(q) < QueueCapacity

\* runner.py:88  `except (CancelledError, TimeoutError, Exception)`: an
\* exception of the task that is not an Exception ("base") is not caught by
\* future_result.
FutureEscapes(result) == result = "base"

\* runner.py:84-90: what future_result adds to (success, failure) for a
\* future whose task returned `result`, raised an Exception ("exc") or
\* raised another BaseException ("base").
FutureCounts(result) == IF FutureEscapes(result) THEN <<0, 0>>
                        ELSE IF result = "exc" THEN <<0, 1>>
                        ELSE IF result = "True" THEN <<1, 0>> ELSE <<0, 1>>

\* runner.py:94-95  `progress = item_cnt / total; if progress > 0.1`
ProgressDueMut(cnt, tot) == 10 * cnt >= tot
ProgressDue(cnt, tot) == 10 * cnt > tot
\* runner.py:94, 97: the expression is evaluated in double precision,
\* fl(fl(fl(cnt / tot) * grp) * 100), and truncated.  A line is logged with
\* cnt = tot \div 10 + 1; for these arguments and tot <= 400 the truncated
\* double is the exact quotient except for the triples below, where the
\* product falls just short of the integer 45 (resp. 90).
FloatShortfall == {<<3, 20, 3>>, <<3, 20, 6>>}
\* runner.py:97  int(progress * batch_group_cnt * 100)
ProgressPercent(cnt, tot, grp) ==
    ((cnt * grp * 100) \div tot) - (IF <<cnt, tot, grp>> \in FloatShortfall THEN 1 ELSE 0)

\* runner.py:92-100: the status update of future_result applied to the
\* progress state st (running count, report index, lines logged).
StatusUpdate(st, tot) ==
    IF ProgressDue(st.cnt + 1, tot)
    THEN [cnt |-> 0, grp |-> st.grp + 1,
          log |-> Append(st.log, ProgressPercent(st.cnt + 1, tot, st.grp))]
    ELSE [st EXCEPT !.cnt = @ + 1]

\* The progress state after k futures were handled (runner.py:77-78,
\* 92-100): k applications of StatusUpdate to (0, 0, no line).  A line is
\* logged at every c-th future, c = tot \div 10 + 1 being the least count
\* above 10% of the total.
StatusAfter(k, tot) ==
    LET c == tot \div 10 + 1 IN
      [cnt |-> k % c, grp |-> k \div c,
       log |-> [g \in 1..(k \div c) |-> ProgressPercent(c, tot, g - 1)]]

\* runner.py:116: the as_completed loop ends when every future of the list
\* has been yielded.
AsCompletedExhaustedMut(p, n) == p # {} \/ n = 0
AsCompletedExhausted(p, n) == p = 1..n

\* runner.py:62, 75: the collector thread is started in async mode only.
StartCollectorMut(a, c) == c
StartCollector(a, c) == IF a THEN "check" ELSE c

\* runner.py:125  `self.execution_times = []`
ClearedTimes(t) == <<>>

NewFuture(b) == [batch |-> b, done |-> FALSE, result |-> "none", out |-> "none"]

Running == {w \in PoolThreadIds : worker[w].pc # "idle"}

\* ------------------------------------------------------------------ Init

Init ==
    /\ batch_size \in BatchSizes
    /\ async_req \in BOOLEAN
    /\ workers \in WorkerCounts
    /\ \E n \in 0..MaxSamples : dataset = [i \in 1..n |-> i]
    /\ opc = "start"
    /\ pos = 0
    /\ batch = <<>>
    /\ futures = <<>>
    /\ work_queue = <<>>
    /\ worker = [w \in PoolThreadIds |-> Idle]
    /\ async_reqs = <<>>
    /\ completed = FALSE
    /\ cpc = "none"
    /\ chand = 0
    /\ resolved = NoneResolved
    /\ success_counter = 0
    /\ fail_counter = 0
    /\ execution_times = <<>>
    /\ returned_times = <<>>
    /\ item_cnt = 0
    /\ batch_group_cnt = 0
    /\ total = 0
    /\ progress_log = <<>>
    /\ processed = {}
    /\ fail_warning = 0
    /\ run_no = 1
    /\ pass_start = 0
    /\ stale = NoStale
    /\ lock_holder = "none"
    /\ incr = NotIncrementing

\* ---------------------------------------------------------- orchestrator

\* runner.py:28-33, 62-80, 102-104.  ThreadPoolExecutor(max_workers=n)
\* raises ValueError for n <= 0, before any thread is started.
RunStart ==
    /\ opc = "start"
    /\ IF workers < 1
       THEN /\ opc' = "raised"
            /\ UNCHANGED <<cpc, total>>
       ELSE /\ opc' = "iterate"
            /\ cpc' = StartCollector(async_req, cpc)
            /\ total' = Len(dataset)
    /\ UNCHANGED <<lockvars, runvars, cfgvars, pos, batch, completed, returned_times, processed,
                   fail_warning, poolvars, async_reqs, chand, resolved, cntvars,
                   item_cnt, batch_group_cnt, progress_log, execution_times>>

\* executor.submit(send_batch, b); futures.append(f)
Submit(b) ==
    /\ SubmitReady(Len(work_queue), Cardinality(Running), workers)
    /\ futures' = Append(futures, NewFuture(b))
    /\ work_queue' = Append(work_queue, Len(futures) + 1)

\* runner.py:105-110: one iteration of `for sample in self.dataset`.
RunIterate ==
    /\ opc = "iterate"
    /\ pos < Len(dataset)
    /\ pos' = pos + 1
    /\ LET b == Append(batch, dataset[pos + 1]) IN
         IF BatchFull(b, batch_size)
         THEN /\ Submit(b)
              /\ batch' = <<>>
         ELSE /\ batch' = b
              /\ UNCHANGED <<futures, work_queue>>
    /\ UNCHANGED <<lockvars, runvars, cfgvars, opc, completed, returned_times, processed,
                   fail_warning, worker, collvars, cntvars, progvars,
                   execution_times>>

\* runner.py:112-114: the loop is exhausted; submit the short last batch.
RunTail ==
    /\ opc = "iterate"
    /\ pos = Len(dataset)
    /\ IF TailPending(batch)
       THEN Submit(batch)
       ELSE UNCHANGED <<futures, work_queue>>
    /\ opc' = "await"
    /\ UNCHANGED <<lockvars, runvars, cfgvars, pos, batch, completed, returned_times, processed,
                   fail_warning, worker, collvars, cntvars, progvars,
                   execution_times>>

\* runner.py:82-90, 116-117: as_completed yields a finished future and
\* future_result counts it; an exception that line 88 does not catch is
\* raised again once the finally block has run.
FutureResult(i) ==
    /\ opc = "await"
    /\ i \in 1..Len(futures)
    /\ i \notin processed
    /\ futures[i].done
    /\ processed' = processed \cup {i}
    /\ LET c == FutureCounts(futures[i].result) IN
         /\ success_counter' = increment(success_counter, c[1])
         /\ fail_counter' = increment(fail_counter, c[2])
    /\ opc' = IF FutureEscapes(futures[i].result) THEN "status_abort" ELSE "status"
    /\ UNCHANGED <<lockvars, runvars, cfgvars, pos, batch, completed, returned_times,
                   fail_warning, poolvars, collvars, progvars, execution_times>>

\* runner.py:91-100: the finally block of future_result, under
\* status_update_lock; then the loop goes on, or the uncaught exception
\* leaves future_result and Runner.run.
FutureStatus ==
    /\ opc \in {"status", "status_abort"}
    /\ LET st == StatusUpdate([cnt |-> item_cnt, grp |-> batch_group_cnt,
                               log |-> progress_log], total) IN
         /\ item_cnt' = st.cnt
         /\ batch_group_cnt' = st.grp
         /\ progress_log' = st.log
    /\ opc' = IF opc = "status_abort" THEN "raised" ELSE "await"
    /\ UNCHANGED <<lockvars, runvars, cfgvars, pos, batch, completed, returned_times,
                   processed, fail_warning, poolvars, collvars, cntvars, total,
                   execution_times>>

\* runner.py:118-120: every future was handled; `if fail_counter.value() > 0`
RunSummary ==
    /\ opc = "await"
    /\ AsCompletedExhausted(processed, Len(futures))
    /\ opc' = IF fail_counter > 0 THEN "warn" ELSE "summary"
    /\ UNCHANGED <<lockvars, runvars, cfgvars, pos, batch, completed, returned_times, processed,
                   fail_warning, poolvars, collvars, cntvars, progvars, execution_times>>

\* runner.py:121  LOG.warn("Failed %d requests", fail_counter.value()): the
\* counter is read a second time.
RunWarn ==
    /\ opc = "warn"
    /\ fail_warning' = fail_counter
    /\ opc' = "summary"
    /\ UNCHANGED <<lockvars, runvars, cfgvars, pos, batch, completed, returned_times, processed,
                   poolvars, collvars, cntvars, progvars, execution_times>>

\* runner.py:122  completed.set()
RunSignal ==
    /\ opc = "summary"
    /\ completed' = TRUE
    /\ opc' = "signalled"
    /\ UNCHANGED <<lockvars, runvars, cfgvars, pos, batch, returned_times, processed,
                   fail_warning, poolvars, collvars, cntvars, progvars, execution_times>>

\* runner.py:124-126: return the execution times and clear the attribute.
RunReturn ==
    /\ opc = "signalled"
    /\ returned_times' = execution_times
    /\ execution_times' = ClearedTimes(execution_times)
    /\ opc' = "returned"
    /\ UNCHANGED <<cfgvars, pos, batch, completed, processed, fail_warning, poolvars,
                   collvars, cntvars, progvars, runvars, lockvars>>

\* Where the next iteration over self.dataset starts when the previous call
\* consumed n samples: at the first sample when the dataset source is
\* multi-pass, after the n-th when it is single-pass (len(self.dataset) is
\* the same either way).
SecondPassStart(n) == {0, n}

\* Runner.run is called again on the same Runner (runner.py:27-33, 77-80,
\* 102-103), after the previous call returned or raised.  The queue, the
\* event, the executor, the counters and the progress state are locals of
\* the call and are created afresh; only self.execution_times and
\* self.dataset are kept.  A collector thread left over from the previous
\* call only holds that call's objects, so it can no longer touch any state
\* modelled here.  Nothing waits for the previous call's pool: after a raise
\* its threads go on with the tasks they hold and with those still queued,
\* and share self.execution_times with the new call.
RunAgain ==
    /\ opc \in {"returned", "raised"}
    /\ stale' = [call |-> Len(work_queue)
                           + Cardinality({w \in PoolThreadIds : worker[w].pc = "call"}),
                 rec |-> Cardinality({w \in PoolThreadIds :
                                         worker[w].pc \in {"put", "record"}})]
    /\ run_no + 1 \in RunNumbers
    /\ run_no' = run_no + 1
    /\ opc' = "start"
    /\ pos' \in SecondPassStart(pos)
    /\ pass_start' = pos'
    /\ batch' = <<>>
    /\ futures' = <<>>
    /\ work_queue' = <<>>
    /\ worker' = [w \in PoolThreadIds |-> Idle]
    /\ async_reqs' = <<>>
    /\ completed' = FALSE
    /\ cpc' = "none"
    /\ chand' = 0
    /\ resolved' = NoneResolved
    /\ success_counter' = 0
    /\ fail_counter' = 0
    /\ returned_times' = <<>>
    /\ item_cnt' = 0
    /\ batch_group_cnt' = 0
    /\ total' = 0
    /\ progress_log' = <<>>
    /\ processed' = {}
    /\ fail_warning' = 0
    /\ UNCHANGED <<cfgvars, execution_times, lockvars>>

\* --------------------------------------------------------- pool workers

\* A pool thread takes the oldest task of the work queue (runner.py:31, 108).
WorkerTake(w) ==
    /\ w \in PoolThreads(workers)
    /\ worker[w].pc = "idle"
    /\ work_queue # <<>>
    /\ worker' = [worker EXCEPT ![w] = [task |-> Head(work_queue), pc |-> "call"]]
    /\ work_queue' = Tail(work_queue)
    /\ UNCHANGED <<lockvars, runvars, cfgvars, orchvars, futures, collvars, cntvars, progvars,
                   execution_times>>

\* The future of task i completes with `result`; the thread goes idle.
Complete(w, i, result, out) ==
    /\ futures' = [futures EXCEPT ![i] =
                      [@ EXCEPT !.done = TRUE, !.result = result, !.out = out]]
    /\ worker' = [worker EXCEPT ![w] = Idle]

\* runner.py:35-45, 49-56: send_batch up to the client call.  An empty
\* batch returns None at once; a raised exception leaves send_batch before
\* line 58 and is stored in the future; otherwise the task goes on to put
\* the handle (async, non-null) or to record its timing.
WorkerCall(w) ==
    /\ worker[w].pc = "call"
    /\ LET i == worker[w].task
           b == futures[i].batch
       IN
         IF Len(b) = 0
         THEN \* runner.py:36-38: warning, returns None, no call, no timing
              Complete(w, i, "None", "skip")
         ELSE \E out \in ClientOutcomes :
                CASE out = "raise" -> Complete(w, i, "exc", out)
                  [] out = "abort" -> Complete(w, i, "base", out)
                  [] OTHER ->
                       /\ futures' = [futures EXCEPT ![i].out = out]
                       /\ worker' = [worker EXCEPT ![w].pc =
                             IF async_req /\ SendBatchSuccess(out) THEN "put" ELSE "record"]
    /\ UNCHANGED <<lockvars, runvars, cfgvars, orchvars, work_queue, collvars, cntvars, progvars,
                   execution_times>>

\* runner.py:46: async_reqs.put(req), once the queue has room.
WorkerPut(w) ==
    /\ worker[w].pc = "put"
    /\ QueueHasRoom(async_reqs)
    /\ async_reqs' = Append(async_reqs, worker[w].task)
    /\ worker' = [worker EXCEPT ![w].pc = "record"]
    /\ UNCHANGED <<lockvars, runvars, cfgvars, orchvars, futures, work_queue, cpc, chand,
                   resolved, cntvars, progvars, execution_times>>

\* runner.py:58-59: self.execution_times.append(end - start)
WorkerRecord(w) ==
    /\ worker[w].pc = "record"
    /\ execution_times' = Append(execution_times, run_no)
    /\ worker' = [worker EXCEPT ![w].pc = "return"]
    /\ UNCHANGED <<lockvars, runvars, cfgvars, orchvars, futures, work_queue, collvars,
                   cntvars, progvars>>

\* runner.py:60: send_batch returns success and the future completes.
WorkerReturn(w) ==
    /\ worker[w].pc = "return"
    /\ LET i == worker[w].task IN
         Complete(w, i, IF SendBatchSuccess(futures[i].out) THEN "True" ELSE "False",
                  futures[i].out)
    /\ UNCHANGED <<lockvars, runvars, cfgvars, orchvars, work_queue, collvars, cntvars,
                   progvars, execution_times>>

\* ------------------------------------------------------------ collector

\* runner.py:65: `while not completed.is_set()`
CollectorCheck ==
    /\ cpc = "check"
    /\ cpc' = IF completed THEN "exited" ELSE "get"
    /\ UNCHANGED <<lockvars, runvars, cfgvars, orchvars, poolvars, async_reqs, chand, resolved,
                   cntvars, progvars, execution_times>>

\* runner.py:66: req = async_reqs.get(), blocking while the queue is empty.
CollectorGet ==
    /\ cpc = "get"
    /\ async_reqs # <<>>
    /\ chand' = Head(async_reqs)
    /\ async_reqs' = Tail(async_reqs)
    /\ cpc' = "resolve"
    /\ UNCHANGED <<lockvars, runvars, cfgvars, orchvars, poolvars, resolved, cntvars, progvars,
                   execution_times>>

\* runner.py:67-73: req.get_result() with outcome r; success and
\* InferenceServerException are counted, any other exception ends the
\* collector thread.
Resolve(r) ==
    /\ cpc = "resolve"
    /\ resolved' = [handles |-> resolved.handles \cup {chand},
                    ok |-> resolved.ok + (IF r = "ok" THEN 1 ELSE 0),
                    ise |-> resolved.ise + (IF r = "ise" THEN 1 ELSE 0)]
    /\ success_counter' =
         IF r = "ok" THEN increment(success_counter, 1) ELSE success_counter
    /\ fail_counter' =
         IF r = "ise" THEN increment(fail_counter, 1) ELSE fail_counter
    /\ cpc' = IF r = "other" THEN "dead" ELSE "check"
    /\ chand' = 0
    /\ UNCHANGED <<lockvars, runvars, cfgvars, orchvars, poolvars, async_reqs, progvars,
                   execution_times>>

CollectorResolve == \E r \in ResolveOutcomes : Resolve(r)

\* ------------------------------------------- the previous call's pool

\* runner.py:35-56 run by a pool thread of the previous call: the client
\* call of one of its tasks returns (the timing is still to be recorded) or
\* raises (the task ends without a timing).
StaleCall ==
    /\ stale.call > 0
    /\ \E out \in ClientOutcomes :
         stale' = IF out \in {"ok", "null"}
                  THEN [call |-> stale.call - 1, rec |-> stale.rec + 1]
                  ELSE [stale EXCEPT !.call = @ - 1]
    /\ UNCHANGED <<lockvars, run_no, pass_start, cfgvars, orchvars, poolvars, collvars,
                   cntvars, progvars, execution_times>>

\* runner.py:58-59 run by a pool thread of the previous call: the timing of
\* its task is appended to the self.execution_times the calls share.
StaleRecord ==
    /\ stale.rec > 0
    /\ stale' = [stale EXCEPT !.rec = @ - 1]
    /\ execution_times' = Append(execution_times, run_no - 1)
    /\ UNCHANGED <<lockvars, run_no, pass_start, cfgvars, orchvars, poolvars, collvars,
                   cntvars, progvars>>

\* ------------------------------------------------------------------ Next

Next ==
    \/ RunStart
    \/ RunIterate
    \/ RunTail
    \/ \E i \in 1..Len(futures) : FutureResult(i)
    \/ FutureStatus
    \/ RunSummary
    \/ RunWarn
    \/ RunSignal
    \/ RunReturn
    \/ RunAgain
    \/ \E w \in PoolThreadIds : WorkerTake(w)
    \/ \E w \in PoolThreadIds : WorkerCall(w)
    \/ \E w \in PoolThreadIds : WorkerPut(w)
    \/ \E w \in PoolThreadIds : WorkerRecord(w)
    \/ \E w \in PoolThreadIds : WorkerReturn(w)
    \/ CollectorCheck
    \/ CollectorGet
    \/ CollectorResolve
    \/ StaleCall
    \/ StaleRecord

Spec == Init /\ [][Next]_vars

\* Every thread that can take a step eventually takes one.
Fairness ==
    /\ WF_vars(RunStart) /\ WF_vars(RunIterate) /\ WF_vars(RunTail)
    /\ WF_vars(\E i \in 1..Len(futures) : FutureResult(i)) /\ WF_vars(FutureStatus)
    /\ WF_vars(RunSummary) /\ WF_vars(RunWarn) /\ WF_vars(RunSignal) /\ WF_vars(RunReturn)
    /\ \A w \in PoolThreadIds :
         /\ WF_vars(WorkerTake(w)) /\ WF_vars(WorkerCall(w)) /\ WF_vars(WorkerPut(w))
         /\ WF_vars(WorkerRecord(w)) /\ WF_vars(WorkerReturn(w))
    /\ WF_vars(CollectorCheck) /\ WF_vars(CollectorGet) /\ WF_vars(CollectorResolve)
    /\ WF_vars(StaleCall) /\ WF_vars(StaleRecord)

FairSpec == Spec /\ Fairness

\* ------------------------------------------------ runs of ten and more

\* the dataset lengths of the runs that follow the progress report
ProgressTotals == {10, 11, 20}

\* A sync run with batch_size 1 and two pool threads over a dataset of 10,
\* 11 or 20 samples, taken up in the as_completed loop (runner.py:116-117):
\* all but the last two tasks have returned a result, the last two are
\* still in the work queue, and future_result has handled the first half of
\* the futures.
ProgressInit ==
    /\ batch_size = 1
    /\ async_req = FALSE
    /\ workers = 2
    /\ \E n \in ProgressTotals : dataset = [i \in 1..n |-> i]
    /\ opc = "await"
    /\ pos = Len(dataset)
    /\ batch = <<>>
    /\ LET n == Len(dataset)
           m == n \div 2
           st == StatusAfter(m, n)
       IN  /\ futures = [i \in 1..n |->
                           IF i <= n - 2
                           THEN [batch |-> <<i>>, done |-> TRUE,
                                 result |-> "True", out |-> "ok"]
                           ELSE NewFuture(<<i>>)]
           /\ work_queue = <<n - 1, n>>
           /\ success_counter = m
           /\ execution_times = [k \in 1..(n - 2) |-> 1]
           /\ processed = 1..m
           /\ item_cnt = st.cnt
           /\ batch_group_cnt = st.grp
           /\ progress_log = st.log
    /\ worker = [w \in PoolThreadIds |-> Idle]
    /\ async_reqs = <<>>
    /\ completed = FALSE
    /\ cpc = StartCollector(async_req, "none")
    /\ chand = 0
    /\ resolved = NoneResolved
    /\ fail_counter = 0
    /\ returned_times = <<>>
    /\ total = Len(dataset)
    /\ fail_warning = 0
    /\ run_no = 1
    /\ pass_start = 0
    /\ stale = NoStale
    /\ lock_holder = "none"
    /\ incr = NotIncrementing

ProgressNext ==
    \/ \E w \in PoolThreadIds : WorkerTake(w)
    \/ \E w \in PoolThreadIds : WorkerCall(w)
    \/ \E w \in PoolThreadIds : WorkerRecord(w)
    \/ \E w \in PoolThreadIds : WorkerReturn(w)
    \/ \E i \in 1..Len(futures) : FutureResult(i)
    \/ FutureStatus
    \/ RunSummary
    \/ RunWarn
    \/ RunSignal
    \/ RunReturn

ProgressSpec == ProgressInit /\ [][ProgressNext]_vars

\* ------------------------------------------- runs longer than the queue

\* the number of batches beyond the queue capacity
BacklogSizes == {1, 2}

\* An async run with batch_size 1 and one pool thread over more samples
\* than the queue holds, at the point where every batch has been submitted,
\* the first QueueCapacity tasks have enqueued their handles and returned,
\* future_result has handled them, and the collector thread, started at
\* runner.py:75, has not yet run.
BacklogInit ==
    /\ batch_size = 1
    /\ async_req = TRUE
    /\ workers = 1
    /\ \E r \in BacklogSizes : dataset = [i \in 1..(QueueCapacity + r) |-> i]
    /\ opc = "await"
    /\ pos = Len(dataset)
    /\ batch = <<>>
    /\ LET m == QueueCapacity
           st == StatusAfter(m, Len(dataset))
       IN  /\ futures = [i \in 1..Len(dataset) |->
                           IF i <= m
                           THEN [batch |-> <<i>>, done |-> TRUE,
                                 result |-> "True", out |-> "ok"]
                           ELSE NewFuture(<<i>>)]
           /\ work_queue = [k \in 1..(Len(dataset) - m) |-> m + k]
           /\ async_reqs = [k \in 1..m |-> k]
           /\ success_counter = m
           /\ execution_times = [k \in 1..m |-> 1]
           /\ processed = 1..m
           /\ item_cnt = st.cnt
           /\ batch_group_cnt = st.grp
           /\ progress_log = st.log
    /\ worker = [w \in PoolThreadIds |-> Idle]
    /\ completed = FALSE
    /\ cpc = StartCollector(async_req, "none")
    /\ chand = 0
    /\ resolved = NoneResolved
    /\ fail_counter = 0
    /\ returned_times = <<>>
    /\ total = Len(dataset)
    /\ fail_warning = 0
    /\ run_no = 1
    /\ pass_start = 0
    /\ stale = NoStale
    /\ lock_holder = "none"
    /\ incr = NotIncrementing

\* CollectorResolve, with the number of resolutions that raise
\* InferenceServerException capped: each of the 200 and more queued handles
\* may fail, and the count is otherwise bounded only by the dataset.
BacklogResolve ==
    \E r \in ResolveOutcomes :
        /\ r = "ise" => resolved.ise < MaxBacklogFailures
        /\ Resolve(r)

BacklogNext ==
    \/ \E w \in PoolThreadIds : WorkerTake(w)
    \/ \E w \in PoolThreadIds : WorkerCall(w)
    \/ \E w \in PoolThreadIds : WorkerPut(w)
    \/ \E w \in PoolThreadIds : WorkerRecord(w)
    \/ \E w \in PoolThreadIds : WorkerReturn(w)
    \/ \E i \in (QueueCapacity + 1)..Len(futures) : FutureResult(i)
    \/ FutureStatus
    \/ RunSummary
    \/ RunWarn
    \/ RunSignal
    \/ RunReturn
    \/ CollectorCheck
    \/ CollectorGet
    \/ BacklogResolve

BacklogSpec == BacklogInit /\ [][BacklogNext]_vars

BacklogFairness ==
    /\ \A w \in PoolThreadIds :
         /\ WF_vars(WorkerTake(w)) /\ WF_vars(WorkerCall(w))
         /\ WF_vars(WorkerPut(w)) /\ WF_vars(WorkerRecord(w)) /\ WF_vars(WorkerReturn(w))
    /\ WF_vars(\E i \in (QueueCapacity + 1)..Len(futures) : FutureResult(i))
    /\ WF_vars(FutureStatus)
    /\ WF_vars(RunSummary) /\ WF_vars(RunWarn) /\ WF_vars(RunSignal) /\ WF_vars(RunReturn)
    /\ WF_vars(CollectorCheck) /\ WF_vars(CollectorGet)
    /\ WF_vars(BacklogResolve)

BacklogFairSpec == BacklogSpec /\ BacklogFairness

\* ---------------------------------------------------- ThreadSafeCounter

\* runner.py:135, 139  `with self._lock`: entered only while no thread holds
\* the lock.
LockFreeMut(h) == TRUE
LockFree(h) == h = "none"

\* runner.py:135: the thread enters `with self._lock`.
IncAcquire(t) ==
    /\ incr[t].pc = "idle"
    /\ incr[t].calls < MaxIncrements
    /\ LockFree(lock_holder)
    /\ lock_holder' = t
    /\ incr' = [incr EXCEPT ![t].pc = "locked"]
    /\ UNCHANGED <<cfgvars, orchvars, poolvars, collvars, cntvars, progvars,
                   execution_times, runvars>>

\* runner.py:136  `self._counter += val`, the read of self._counter.
IncLoad(t) ==
    /\ incr[t].pc = "locked"
    /\ incr' = [incr EXCEPT ![t].pc = "loaded", ![t].tmp = success_counter]
    /\ UNCHANGED <<cfgvars, orchvars, poolvars, collvars, cntvars, progvars,
                   execution_times, runvars, lock_holder>>

\* runner.py:136  `self._counter += val`, the store of the sum.
IncStore(t) ==
    /\ incr[t].pc = "loaded"
    /\ success_counter' = increment(incr[t].tmp, 1)
    /\ incr' = [incr EXCEPT ![t].pc = "stored"]
    /\ UNCHANGED <<cfgvars, orchvars, poolvars, collvars, fail_counter, progvars,
                   execution_times, runvars, lock_holder>>

\* runner.py:135-136: the `with` block is left, the lock released and
\* increment returns.
IncRelease(t) ==
    /\ incr[t].pc = "stored"
    /\ lock_holder' = "none"
    /\ incr' = [incr EXCEPT ![t].pc = "idle", ![t].calls = @ + 1]
    /\ UNCHANGED <<cfgvars, orchvars, poolvars, collvars, cntvars, progvars,
                   execution_times, runvars>>

\* runner.py:139: the thread enters `with self._lock` of value().
ValAcquire(t) ==
    /\ incr[t].pc = "idle"
    /\ LockFree(lock_holder)
    /\ lock_holder' = t
    /\ incr' = [incr EXCEPT ![t].pc = "val_locked"]
    /\ UNCHANGED <<cfgvars, orchvars, poolvars, collvars, cntvars, progvars,
                   execution_times, runvars>>

\* runner.py:139-140: value() returns self._counter and leaves the `with`
\* block; the counter is not changed.
ValRelease(t) ==
    /\ incr[t].pc = "val_locked"
    /\ lock_holder' = "none"
    /\ incr' = [incr EXCEPT ![t].pc = "idle"]
    /\ UNCHANGED <<cfgvars, orchvars, poolvars, collvars, cntvars, progvars,
                   execution_times, runvars>>

\* A ThreadSafeCounter just constructed (runner.py:32, value 0) on which the
\* orchestrator thread (future_result) and the collector thread
\* (get_async_result) call increment(1), taken one step of increment at a
\* time, and which the orchestrator reads with value() (runner.py:120-121).  The rest of the state is an async run with nothing submitted and
\* is left alone.
CounterInit ==
    /\ batch_size \in BatchSizes
    /\ async_req = TRUE
    /\ workers \in 1..MaxWorkers
    /\ dataset = <<>>
    /\ opc = "await"
    /\ pos = Len(dataset)
    /\ batch = <<>>
    /\ futures = <<>>
    /\ work_queue = <<>>
    /\ worker = [w \in PoolThreadIds |-> Idle]
    /\ async_reqs = <<>>
    /\ completed = FALSE
    /\ cpc = StartCollector(async_req, "none")
    /\ chand = 0
    /\ resolved = NoneResolved
    /\ success_counter = 0
    /\ fail_counter = 0
    /\ execution_times = <<>>
    /\ returned_times = <<>>
    /\ item_cnt = 0
    /\ batch_group_cnt = 0
    /\ total = Len(dataset)
    /\ progress_log = <<>>
    /\ processed = {}
    /\ fail_warning = 0
    /\ run_no = 1
    /\ pass_start = 0
    /\ stale = NoStale
    /\ lock_holder = "none"
    /\ incr = NotIncrementing

CounterNext ==
    \/ \E t \in CounterThreads : IncAcquire(t)
    \/ \E t \in CounterThreads : IncLoad(t)
    \/ \E t \in CounterThreads : IncStore(t)
    \/ \E t \in CounterThreads : IncRelease(t)
    \/ ValAcquire("orchestrator")
    \/ ValRelease("orchestrator")

CounterSpec == CounterInit /\ [][CounterNext]_vars

\* ThreadSafeCounter.set(val) (runner.py:142-144), which Runner.run never
\* calls: the lock is taken, the value overwritten, the lock released.
SetAcquire(t) ==
    /\ incr[t].pc = "idle"
    /\ LockFree(lock_holder)
    /\ lock_holder' = t
    /\ incr' = [incr EXCEPT ![t].pc = "set_locked"]
    /\ UNCHANGED <<cfgvars, orchvars, poolvars, collvars, cntvars, progvars,
                   execution_times, runvars>>

SetStore(t, val) ==
    /\ incr[t].pc = "set_locked"
    /\ success_counter' = val
    /\ incr' = [incr EXCEPT ![t].pc = "set_stored"]
    /\ UNCHANGED <<cfgvars, orchvars, poolvars, collvars, fail_counter, progvars,
                   execution_times, runvars, lock_holder>>

SetRelease(t) ==
    /\ incr[t].pc = "set_stored"
    /\ lock_holder' = "none"
    /\ incr' = [incr EXCEPT ![t].pc = "idle"]
    /\ UNCHANGED <<cfgvars, orchvars, poolvars, collvars, cntvars, progvars,
                   execution_times, runvars>>

\* The counter with all its methods, called from either thread; a caller
\* other than Runner.run may use set, and value from any thread.
CounterClassNext ==
    \/ CounterNext
    \/ \E t \in CounterThreads : ValAcquire(t)
    \/ \E t \in CounterThreads : ValRelease(t)
    \/ \E t \in CounterThreads : SetAcquire(t)
    \/ \E t \in CounterThreads, val \in 0..MaxIncrements : SetStore(t, val)
    \/ \E t \in CounterThreads : SetRelease(t)

CounterClassSpec == CounterInit /\ [][CounterClassNext]_vars

\* the progress state is the one k handled futures produce
StatusConsistent ==
    total > 0 =>
      [cnt |-> item_cnt, grp |-> batch_group_cnt, log |-> progress_log]
        = StatusAfter(Cardinality(processed)
                        - (IF opc \in {"status", "status_abort"} THEN 1 ELSE 0), total)

TypeOK ==
    /\ opc \in {"start", "iterate", "await", "status", "status_abort", "warn", "summary",
               "signalled", "returned", "raised"}
    /\ cpc \in {"none", "check", "get", "resolve", "exited", "dead"}
    /\ success_counter \in Nat /\ fail_counter \in Nat
    /\ Len(async_reqs) <= QueueCapacity
    /\ resolved.ok \in Nat /\ resolved.ise \in Nat
    /\ resolved.ok + resolved.ise <= Cardinality(resolved.handles)
    /\ stale.call \in Nat /\ stale.rec \in Nat
    /\ \A t \in CounterThreads : incr[t].pc \in
         {"idle", "locked", "loaded", "stored", "set_locked", "set_stored", "val_locked"}

\* ------------------------------------------------------- derived counts

Tasks == 1..Len(futures)
\* tasks whose send_batch made its client call
Calls == {i \in Tasks : futures[i].out \in ClientOutcomes}
CallsOk == {i \in Tasks : futures[i].out = "ok"}
CallsNull == {i \in Tasks : futures[i].out = "null"}
CallsRaised == {i \in Tasks : futures[i].out = "raise"}
CallsAborted == {i \in Tasks : futures[i].out = "abort"}
NotCompleted == {i \in Tasks : ~futures[i].done}
\* handles the collector has resolved, whatever the outcome
ResolvedHandles == resolved.handles
\* handles that were put on the pending queue: still in it, held by the
\* collector, or resolved
Enqueued == {async_reqs[k] : k \in 1..Len(async_reqs)} \cup ({chand} \ {0})
               \cup ResolvedHandles
Occurrences(q, h) == Cardinality({k \in 1..Len(q) : q[k] = h})
\* the submission loop of the current call is over and the call did not raise
LoopDone == opc \in {"await", "status", "status_abort", "warn", "summary",
                     "signalled", "returned"}

\* ================================================================ claims

\* C1: in sync mode, when Runner.run has returned, successCount is the
\* number of batches whose infer_batch returned a non-null result,
\* failureCount the number whose call returned None or raised, and their sum
\* the number of batches submitted.
C1_SyncCountsMatchOutcomes ==
    (opc = "returned" /\ ~async_req) =>
        /\ success_counter = Cardinality(CallsOk)
        /\ fail_counter = Cardinality(CallsNull \cup CallsRaised)
        /\ success_counter + fail_counter = Len(futures)

C1_Witness ==
    /\ opc = "returned" /\ ~async_req
    /\ CallsOk # {} /\ CallsRaised # {}
    /\ success_counter = 1 /\ fail_counter = 1

\* C2 (as claimed): in async mode successCount + failureCount never exceeds
\* the number of pending handles created plus the number of immediate
\* submission failures.
C2_AsyncCountBounded ==
    async_req =>
        success_counter + fail_counter
            <= Cardinality(CallsOk) + Cardinality(CallsNull \cup CallsRaised)

\* C3 (as claimed): no enqueued handle is lost: once the collector has left
\* its loop, every handle that was put on the pending queue has been
\* resolved.
C3_NoHandleLost ==
    cpc = "exited" => Enqueued \subseteq ResolvedHandles

\* C4 (as claimed): in async mode, once the completed signal is set the
\* collector thread eventually terminates.
C4_CollectorTerminates ==
    (completed /\ cpc # "none") ~> (cpc \in {"exited", "dead"})

\* C5: for batch_size B >= 1 and N samples yielded by the dataset, the batches
\* submitted to the pool number ceil(N/B), every batch but possibly the last
\* has exactly B samples, the last has 1..B, the sizes sum to N and the
\* batches, concatenated in submission order, are those samples in order.
C5_Batching ==
    (LoopDone /\ batch_size >= 1) =>
        LET samples == SubSeq(dataset, pass_start + 1, Len(dataset))
            N == Len(samples)
            B == batch_size
            bs == [i \in Tasks |-> futures[i].batch]
        IN  /\ Len(futures) = (N + B - 1) \div B
            /\ \A i \in Tasks : i < Len(futures) => Len(bs[i]) = B
            /\ \A i \in Tasks : Len(bs[i]) \in 1..B
            /\ Len(Flatten(bs)) = N
            /\ Flatten(bs) = samples

C5_Witness ==
    /\ opc = "await" /\ batch_size = 1 /\ Len(dataset) = 2 /\ pass_start = 0
    /\ Len(futures) = 2
    /\ futures[1].batch = <<1>> /\ futures[2].batch = <<2>>

\* C6 (as claimed): when Runner.run has returned, the returned execution
\* times have one entry per submission call made, whatever the call's
\* outcome.
C6_TimesMatchCalls ==
    opc = "returned" => Len(returned_times) = Cardinality(Calls)

\* C7: at most `workers` send_batch executions are in flight, no two pool
\* threads run the same task, and a task in flight is neither waiting in the
\* work queue nor already completed.
C7_BoundedInFlight ==
    /\ Cardinality(Running) <= workers
    /\ \A w1, w2 \in Running : w1 # w2 => worker[w1].task # worker[w2].task
    /\ \A w \in Running :
         /\ worker[w].task \in Tasks
         /\ ~futures[worker[w].task].done
         /\ Occurrences(work_queue, worker[w].task) = 0

C7_Witness ==
    /\ workers = 1 /\ Cardinality(Running) = 1
    /\ work_queue # <<>>

\* C8 (as claimed): the number of batches submitted but not yet completed
\* never exceeds workers.
C8_SubmissionBlocks ==
    Cardinality(NotCompleted) <= workers

\* C9 (as claimed): a future whose task raised is counted by future_result
\* as exactly one failure and no success and nothing is raised again, so
\* Runner.run does not end by raising (for a configuration the executor
\* accepts), and when run returns every submitted task has completed and
\* been handled.
C9_Step ==
    \A i \in processed' \ processed :
        futures[i].result \in {"exc", "base"} =>
             /\ fail_counter' = fail_counter + 1
             /\ success_counter' = success_counter
             /\ opc' = "status"

C9_TaskExceptionCounted ==
    /\ [](opc = "returned" =>
            /\ processed = Tasks
            /\ \A i \in Tasks : futures[i].done)
    /\ [](workers >= 1 => opc # "raised")
    /\ [][C9_Step]_vars

\* C10: the pending queue never holds more than its capacity; a handle is
\* enqueued only when the queue has room, and every handle that was created
\* is in exactly one place: held by the task about to put it, in the queue
\* (once), held by the collector, or resolved.
C10_Held == {worker[w].task : w \in {x \in PoolThreadIds : worker[x].pc = "put"}}
C10_Queued == {async_reqs[k] : k \in 1..Len(async_reqs)}
C10_Created == {h \in Tasks : async_req /\ futures[h].out = "ok"}

C10_PutStep ==
    \A w \in PoolThreadIds :
        (worker[w].pc = "put" /\ worker'[w].pc # "put") =>
            /\ Len(async_reqs) < QueueCapacity
            /\ async_reqs' = Append(async_reqs, worker[w].task)

C10_Backpressure ==
    /\ [](Len(async_reqs) <= QueueCapacity)
    /\ [](LET held == C10_Held
              created == C10_Created
          IN  /\ held \cup C10_Queued \cup ({chand} \ {0}) \cup ResolvedHandles = created
              /\ Cardinality(held) + Len(async_reqs) + (IF chand = 0 THEN 0 ELSE 1)
                   + Cardinality(ResolvedHandles) = Cardinality(created))
    /\ [][C10_PutStep]_vars

\* the queue is full again after a slot was freed and taken by the handle
\* of the task that had been waiting, and the next task is waiting now
C10_Witness ==
    /\ Len(async_reqs) = QueueCapacity
    /\ async_reqs[QueueCapacity] = QueueCapacity + 1
    /\ \E w \in PoolThreadIds : worker[w] = [task |-> QueueCapacity + 2, pc |-> "put"]

\* C11 (as claimed): whatever the client calls and the resolutions return
\* or raise, the call of Runner.run eventually ends (for a configuration the
\* executor accepts): it returns, or at the least raises the exception of a
\* task; it does not stay blocked.
C11_RunCompletes ==
    (workers >= 1) => <>(opc \in {"returned", "raised"})

\* C12 (as claimed): a configuration with batch_size < 1 or workers < 1 is
\* rejected at construction, so no batch is ever submitted under it.
C12_InvalidConfigRejected ==
    (batch_size < 1 \/ workers < 1) => futures = <<>>

\* tasks whose send_batch has recorded its timing (runner.py:58-59 done)
TimedTasks == {i \in Tasks :
                 /\ futures[i].out \in {"ok", "null"}
                 /\ \/ futures[i].done
                    \/ \E w \in PoolThreadIds : worker[w] = [task |-> i, pc |-> "return"]}

\* C13 (as claimed): the entries of self.execution_times and of the
\* returned value all come from the current call; a call starts with
\* self.execution_times empty; run returns one entry per task that recorded
\* its timing and leaves self.execution_times empty, with no pool thread,
\* of this call or of the previous one, left to append to it.
C13_TimesPerRun ==
    /\ \A k \in 1..Len(execution_times) : execution_times[k] = run_no
    /\ \A k \in 1..Len(returned_times) : returned_times[k] = run_no
    /\ opc \in {"start", "returned"} => execution_times = <<>>
    /\ opc = "returned" =>
         /\ Len(returned_times) = Cardinality(TimedTasks)
         /\ Running = {} /\ work_queue = <<>> /\ stale = NoStale

\* C14 (as claimed): in async mode, once run has returned and the collector
\* has resolved every enqueued handle, successCount is the number of
\* successful resolutions and failureCount the number of failed resolutions
\* plus the immediate submission failures.
C14_CountedByResolutionOnly ==
    (/\ async_req /\ opc = "returned"
     /\ Enqueued \subseteq ResolvedHandles
     /\ cpc # "dead")
    =>
        /\ success_counter = resolved.ok
        /\ fail_counter = resolved.ise
                            + Cardinality(CallsNull \cup CallsRaised)

\* C16 (as claimed): a resolution that raises, whatever the exception, adds
\* one to failureCount and the collector goes on with its loop.
C16_Step ==
    (resolved'.handles # resolved.handles /\ resolved'.ok = resolved.ok) =>
        /\ fail_counter' = fail_counter + 1
        /\ success_counter' = success_counter
        /\ cpc' = "check"

C16_AnyResolutionErrorCounted == [][C16_Step]_vars

\* C17: while the completed signal is set, the submission loop is over,
\* every submitted task has finished and been handled by future_result, and
\* no pool thread holds a task that could still enqueue a handle.
C17_CompletedAfterAllTasks ==
    completed =>
        /\ opc \in {"signalled", "returned"}
        /\ pos = Len(dataset)
        /\ processed = Tasks
        /\ \A i \in Tasks : futures[i].done
        /\ work_queue = <<>>
        /\ Running = {}

C17_Witness ==
    /\ completed /\ async_req /\ opc = "signalled"
    /\ Len(futures) = 2
    /\ Cardinality(Enqueued) >= 2

\* C18: in async mode the collector has been started before any batch is
\* submitted, so whenever a task or a handle exists a collector was started;
\* in sync mode no collector is started and nothing ever enters the pending
\* queue.
C18_CollectorStartedFirst ==
    /\ (async_req /\ opc \notin {"start", "raised"}) => cpc # "none"
    /\ (async_req /\ (futures # <<>> \/ CallsOk # {})) => cpc # "none"
    /\ ~async_req =>
         /\ cpc = "none"
         /\ async_reqs = <<>> /\ chand = 0 /\ resolved = NoneResolved
         /\ \A w \in PoolThreadIds : worker[w].pc # "put"

C18_Witness ==
    /\ async_req /\ opc = "iterate" /\ pos = 0 /\ dataset # <<>>
    /\ futures = <<>>
    /\ cpc = "get"

\* number of dataset items in the batches of the futures handled so far
RECURSIVE ItemsIn(_)
ItemsIn(S) ==
    IF S = {} THEN 0
    ELSE LET i == CHOOSE x \in S : TRUE
         IN  Len(futures[i].batch) + ItemsIn(S \ {i})

\* C19 (as claimed): right after a progress line is logged, the percentage
\* it reports is the share of the total number of items that has been
\* processed so far.
C19_CumulativePercent ==
    (progress_log # <<>> /\ item_cnt = 0) =>
        progress_log[Len(progress_log)] = (ItemsIn(processed) * 100) \div total

\* C20: the logged percentages are non-decreasing; a line is logged only
\* by a completion that brings the running count above 10% of the total,
\* and the running count is then reset to 0; a completion that logs nothing
\* adds one to the running count, which stays within 10% of the total.
C20_Step ==
    /\ Len(progress_log') > Len(progress_log) =>
         /\ 10 * (item_cnt + 1) > total
         /\ item_cnt' = 0
         /\ Len(progress_log') = Len(progress_log) + 1
    /\ (opc \in {"status", "status_abort"} /\ opc' # opc
          /\ progress_log' = progress_log) =>
         /\ item_cnt' = item_cnt + 1
         /\ 10 * item_cnt' <= total

C20_MonotonicProgress ==
    /\ [](\A g \in 1..(Len(progress_log) - 1) : progress_log[g] <= progress_log[g + 1])
    /\ [](10 * item_cnt <= total)
    /\ [][C20_Step]_vars

\* in a run over 20 samples a line is logged at every third completion;
\* four lines are out and two completions since have logged nothing
C20_Witness ==
    /\ total = 20
    /\ progress_log = <<0, 15, 30, 44>>
    /\ item_cnt = 2 /\ batch_group_cnt = 4

\* number of increment(1) calls that have returned
CompletedIncrements == incr["orchestrator"].calls + incr["collector"].calls

\* C21: whenever the counter can be read (the lock is free, or value()
\* holds it, so no increment is inside its critical section), its value is
\* the number of increment(1) calls completed; at most one thread is inside
\* a critical section; and the value never decreases.
C21_NoLostUpdate ==
    /\ [](LockFree(lock_holder) => success_counter = CompletedIncrements)
    /\ [](\A t \in CounterThreads :
            incr[t].pc = "val_locked" => success_counter = CompletedIncrements)
    /\ [](Cardinality({t \in CounterThreads : incr[t].pc # "idle"}) <= 1)
    /\ [][success_counter' >= success_counter]_vars

C21_Witness ==
    /\ incr["orchestrator"].calls = 2 /\ incr["collector"].calls = 1
    /\ incr["collector"].pc = "stored"
    /\ success_counter = 4

\* C22 (as claimed): the end-of-run warning is logged iff failureCount > 0
\* and reports failureCount, and failureCount is still that number once the
\* summary has been computed and after run has returned.
C22_SummaryIsFinal ==
    opc \in {"summary", "signalled", "returned"} => fail_warning = fail_counter

\* C23: no submitted batch is empty, whatever the dataset length and the
\* configured batch_size (0 and negative included); with no sample to
\* iterate no task is submitted, the orchestrator is never made to wait and
\* the call records no timing; for an empty dataset run returns an empty
\* result.
C23_NoEmptyBatch ==
    /\ \A i \in Tasks : Len(futures[i].batch) >= 1
    /\ pass_start = Len(dataset) =>
         /\ futures = <<>>
         /\ \A k \in 1..Len(execution_times) : execution_times[k] # run_no
         /\ \A k \in 1..Len(returned_times) : returned_times[k] # run_no
         /\ (workers >= 1 /\ opc # "returned") =>
              ENABLED (RunStart \/ RunIterate \/ RunTail \/ RunSummary \/ RunSignal
                         \/ RunReturn)
    /\ (dataset = <<>> /\ opc = "returned") => returned_times = <<>>

C23_Witness ==
    /\ batch_size = -1 /\ Len(dataset) = 2 /\ pass_start = 0
    /\ opc = "returned"
    /\ Len(futures) = 1 /\ futures[1].batch = dataset

====
